---- MODULE Spec2Model ----
(***************************************************************************)
(* Model of src/main15.py: the translator of the configuration language    *)
(* (variant 15) into a JSON-compatible value tree.                         *)
(*                                                                         *)
(* A text is a sequence of one-character strings.  Positions (the lexer's  *)
(* pos, the parser's self.pos) are 0-based as in the source, so the        *)
(* character at position p is text[p + 1].                                 *)
(*                                                                         *)
(* One call of translate_text runs tokenize (one action per iteration of   *)
(* its while loop), constructs the Parser, and runs the recursive descent  *)
(* with its call stack made explicit: an action runs from one call of      *)
(* parse_value (or one return from it) to the next.                        *)
(***************************************************************************)
EXTENDS Integers, Sequences, FiniteSets, TLC

VARIABLES queue, log, pc, text, lpos, tokens, pos, consts, stack, ctl, ret,
          outcome, steps

vars == <<queue, log, pc, text, lpos, tokens, pos, consts, stack, ctl, ret,
          outcome, steps>>

(***************************************************************************)
(* Characters.  The regular expression of the source ranges over all of    *)
(* Unicode; the model keeps a finite alphabet with members of every        *)
(* character class the expression distinguishes.                           *)
(***************************************************************************)
SpaceChars == {" ", "\n", "\t"}
LetterChars == {"a", "b", "d", "e", "f", "r", "y", "x", "B", "_"}
BinChars == {"0", "1"}
DigitChars == BinChars \cup {"2"}
WordChars == LetterChars \cup DigitChars
PunctChars == {"@", "{", "}", "(", ")", ",", "=", ";", "$", "[", "]", "#"}
Alphabet == SpaceChars \cup WordChars \cup PunctChars

RECURSIVE RunEnd(_, _, _)
\* the position after the longest run of characters of set S that starts at p
RunEnd(t, p, S) ==
    IF p < Len(t) /\ t[p + 1] \in S THEN RunEnd(t, p + 1, S) ELSE p

\* the literal lit stands at position p of t
LitAt(t, p, lit) ==
    /\ p + Len(lit) <= Len(t)
    /\ \A i \in 1..Len(lit) : t[p + i] = lit[i]

\* \b of the regular expression: exactly one side of p is a word character
WordBoundary(t, p) ==
    LET before == p > 0 /\ t[p] \in WordChars
        after == p < Len(t) /\ t[p + 1] \in WordChars
    IN  before # after

NoMatch == -1

(***************************************************************************)
(* The alternatives of TOKEN_RE: each gives the end of its match at p, or  *)
(* NoMatch.  Every quantifier of the expression ranges over a character    *)
(* class that excludes the character required next, so the greedy match is *)
(* the only candidate and backtracking cannot find another.                *)
(***************************************************************************)
Lit(t, p, lit) == IF LitAt(t, p, lit) THEN p + Len(lit) ELSE NoMatch

Keyword(t, p, lit) ==
    IF /\ WordBoundary(t, p)
       /\ LitAt(t, p, lit)
       /\ WordBoundary(t, p + Len(lit))
    THEN p + Len(lit) ELSE NoMatch

\* variant: \s* in place of \s+, a match of no character
RE_WS_empty(t, p) == RunEnd(t, p, SpaceChars)

RE_WS(t, p) ==
    IF p < Len(t) /\ t[p + 1] \in SpaceChars
    THEN RunEnd(t, p + 1, SpaceChars) ELSE NoMatch

RE_CONSTREF(t, p) ==
    IF LitAt(t, p, <<"$">>) /\ p + 1 < Len(t) /\ t[p + 2] \in LetterChars
    THEN LET e == RunEnd(t, p + 2, WordChars)
         IN  IF LitAt(t, e, <<"$">>) THEN e + 1 ELSE NoMatch
    ELSE NoMatch

RE_STRING(t, p) ==
    IF LitAt(t, p, <<"[", "[">>)
    THEN LET e == RunEnd(t, p + 2, Alphabet \ {"]"})
         IN  IF LitAt(t, e, <<"]", "]">>) THEN e + 2 ELSE NoMatch
    ELSE NoMatch

RE_NUMBER(t, p) ==
    IF LitAt(t, p, <<"0">>) /\ p + 1 < Len(t) /\ t[p + 2] \in {"b", "B"}
    THEN LET e == RunEnd(t, p + 2, BinChars)
         IN  IF e > p + 2 THEN e ELSE NoMatch
    ELSE NoMatch

RE_IDENT(t, p) ==
    IF p < Len(t) /\ t[p + 1] \in LetterChars
    THEN RunEnd(t, p + 1, WordChars) ELSE NoMatch

\* the named groups of the expression, in its order
Groups ==
    <<"WS", "DICT_START", "LBRACE", "RBRACE", "LPAREN", "RPAREN", "COMMA",
      "EQUAL", "SEMICOLON", "ARRAY", "DEF", "CONSTREF", "STRING", "NUMBER",
      "IDENT">>

\* the end of the match of group g at p, or NoMatch
GroupEnd(g, t, p) ==
    CASE g = "WS" -> RE_WS(t, p)
      [] g = "DICT_START" -> Lit(t, p, <<"@", "{">>)
      [] g = "LBRACE" -> Lit(t, p, <<"{">>)
      [] g = "RBRACE" -> Lit(t, p, <<"}">>)
      [] g = "LPAREN" -> Lit(t, p, <<"(">>)
      [] g = "RPAREN" -> Lit(t, p, <<")">>)
      [] g = "COMMA" -> Lit(t, p, <<",">>)
      [] g = "EQUAL" -> Lit(t, p, <<"=">>)
      [] g = "SEMICOLON" -> Lit(t, p, <<";">>)
      [] g = "ARRAY" -> Keyword(t, p, <<"a", "r", "r", "a", "y">>)
      [] g = "DEF" -> Keyword(t, p, <<"d", "e", "f">>)
      [] g = "CONSTREF" -> RE_CONSTREF(t, p)
      [] g = "STRING" -> RE_STRING(t, p)
      [] g = "NUMBER" -> RE_NUMBER(t, p)
      [] g = "IDENT" -> RE_IDENT(t, p)

RECURSIVE FirstMatch(_, _, _)
\* the first group from the i-th on that matches at p
FirstMatch(t, p, i) ==
    IF i > Len(Groups) THEN [kind |-> "NONE", end |-> p]
    ELSE IF GroupEnd(Groups[i], t, p) # NoMatch
    THEN [kind |-> Groups[i], end |-> GroupEnd(Groups[i], t, p)]
    ELSE FirstMatch(t, p, i + 1)

\* TOKEN_RE.match(text, pos): the first alternative that matches wins;
\* kind is m.lastgroup, "NONE" when there is no match
TOKEN_RE(t, p) == FirstMatch(t, p, 1)

Token(type, value) == [type |-> type, value |-> value]

\* text[a:b]
Slice(t, a, b) == IF b > a THEN SubSeq(t, a + 1, b) ELSE <<>>

(***************************************************************************)
(* Values: the JSON-compatible tree.  A Python dict is a sequence of       *)
(* key/value pairs in insertion order.                                     *)
(***************************************************************************)
IntV(n) == [t |-> "int", v |-> n]
StrV(s) == [t |-> "str", v |-> s]
ArrV(items) == [t |-> "arr", v |-> items]
DictV(pairs) == [t |-> "dict", v |-> pairs]
NoValue == [t |-> "none", v |-> 0]

DictHas(d, k) == \E i \in 1..Len(d) : d[i].key = k

DictGet(d, k) == d[CHOOSE i \in 1..Len(d) : d[i].key = k].value

\* variant: a list of pairs, every assignment adds one
DictSet_append(d, k, v) == Append(d, [key |-> k, value |-> v])

\* d[k] = v: an existing key keeps its place and takes the new value
DictSet(d, k, v) ==
    IF DictHas(d, k)
    THEN [i \in 1..Len(d) |->
             IF d[i].key = k THEN [key |-> k, value |-> v] ELSE d[i]]
    ELSE Append(d, [key |-> k, value |-> v])

RECURSIVE BinValue(_)
\* int(digits, 2)
BinValue(digits) ==
    IF digits = <<>> THEN 0
    ELSE 2 * BinValue(SubSeq(digits, 1, Len(digits) - 1))
         + (IF digits[Len(digits)] = "1" THEN 1 ELSE 0)

parse_binary(s) == BinValue(Slice(s, 2, Len(s)))

(***************************************************************************)
(* Outcomes of one translate_text call: the value returned, the            *)
(* SyntaxError raised, with the data its message carries, or the           *)
(* RecursionError the interpreter raises when the call stack is full.      *)
(***************************************************************************)
Pending ==
    [kind |-> "none", value |-> NoValue, err |-> "", expected |-> "",
     type |-> "", text |-> <<>>, at |-> 0]

Ok(v) == [Pending EXCEPT !.kind = "value", !.value = v]

Err(e, expected, type, txt, at) ==
    [Pending EXCEPT !.kind = "error", !.err = e, !.expected = expected,
                    !.type = type, !.text = txt, !.at = at]

UnexpectedChar(c, p) == Err("UnexpectedChar", "", "", <<c>>, p)
ExpectedToken(expected, tok) == Err("ExpectedToken", expected, tok.type, tok.value, 0)
TrailingInput(tok) == Err("TrailingInput", "", tok.type, tok.value, 0)
ConstNameExpected == Err("ConstNameExpected", "", "", <<>>, 0)
UnknownConstant(name) == Err("UnknownConstant", "", "", name, 0)
UnexpectedValue(tok) == Err("UnexpectedValue", "", tok.type, tok.value, 0)
RecursionError == Err("RecursionError", "", "", <<>>, 0)

(***************************************************************************)
(* tokenize                                                                *)
(***************************************************************************)
\* variant: whitespace is kept as a token
tokenize_step_keep_ws(t, p, toks) ==
    LET m == TOKEN_RE(t, p)
    IN  IF m.kind = "NONE"
        THEN [ok |-> FALSE, pos |-> p, tokens |-> <<>>,
              error |-> UnexpectedChar(t[p + 1], p)]
        ELSE [ok |-> TRUE, pos |-> m.end,
              tokens |-> Append(toks, Token(m.kind, Slice(t, p, m.end))),
              error |-> Pending]

\* one iteration of the while loop of tokenize, at position p with the
\* tokens toks collected so far
tokenize_step(t, p, toks) ==
    LET m == TOKEN_RE(t, p)
    IN  IF m.kind = "NONE"
        THEN [ok |-> FALSE, pos |-> p, tokens |-> <<>>,
              error |-> UnexpectedChar(t[p + 1], p)]
        ELSE [ok |-> TRUE, pos |-> m.end,
              tokens |-> IF m.kind = "WS" THEN toks
                         ELSE Append(toks, Token(m.kind, Slice(t, p, m.end))),
              error |-> Pending]

\* after the loop: the end-of-input token
tokenize_end(toks) == Append(toks, Token("EOF", <<>>))

(***************************************************************************)
(* Parser.  The operators below read the parser's fields tokens and consts *)
(* and compute the effect of one stretch of code on the cursor p and the   *)
(* call stack stk.  A frame holds the locals of a function that is waiting *)
(* for a parse_value call to return:                                       *)
(*   [fn |-> "parse_program"]                                              *)
(*   [fn |-> "parse_const_def", name]                                      *)
(*   [fn |-> "parse_array", items]                                         *)
(*   [fn |-> "parse_dict", result, key]                                    *)
(***************************************************************************)
\* variant: the table is shared by all parsers (a class attribute)
Parser__init__shared(toks) == [tokens |-> toks, pos |-> 0, consts |-> consts]

\* Parser.__init__
Parser__init__(toks) == [tokens |-> toks, pos |-> 0, consts |-> <<>>]

\* self.tokens[p]; an index past the end raises IndexError, which the model
\* shows as a token of a type no grammar position accepts
current(p) ==
    IF p < Len(tokens) THEN tokens[p + 1] ELSE Token("IndexError", <<>>)

peek(p, offset) ==
    LET idx == p + offset
    IN  IF idx < Len(tokens) THEN tokens[idx + 1] ELSE tokens[Len(tokens)]

\* what a stretch of code leaves behind
Call(p, stk) ==
    [ctl |-> "call", pos |-> p, stack |-> stk, ret |-> NoValue,
     consts |-> consts, error |-> Pending]
Return(p, stk, v) ==
    [ctl |-> "ret", pos |-> p, stack |-> stk, ret |-> v,
     consts |-> consts, error |-> Pending]
Raise(p, e) ==
    [ctl |-> "raise", pos |-> p, stack |-> <<>>, ret |-> NoValue,
     consts |-> consts, error |-> e]

\* variant: the cursor moves on whatever the token is
eat_unchecked(p, expected_type) ==
    [ok |-> TRUE, pos |-> p + 1, error |-> Pending]

eat(p, expected_type) ==
    IF current(p).type # expected_type
    THEN [ok |-> FALSE, pos |-> p,
          error |-> ExpectedToken(expected_type, current(p))]
    ELSE [ok |-> TRUE, pos |-> p + 1, error |-> Pending]

RECURSIVE eat_all(_, _)
\* consecutive eat calls: stops at the first that raises
eat_all(p, types) ==
    IF types = <<>> THEN [ok |-> TRUE, pos |-> p, error |-> Pending]
    ELSE LET e == eat(p, Head(types))
         IN  IF e.ok THEN eat_all(e.pos, Tail(types)) ELSE e

Top(stk) == stk[Len(stk)]
Pop(stk) == SubSeq(stk, 1, Len(stk) - 1)

\* sys.getrecursionlimit(): the interpreter raises RecursionError in place
\* of a call that would make the call stack deeper than this
RecursionLimit == 1000

\* the frames in use when translate_text is called: those of the module, of
\* main and of translate_file
CallerFrames == 3

\* the frames in use while the function on top of stk runs: the callers',
\* that of translate_text and those of the functions of stk, where a
\* parse_array or a parse_dict comes with the parse_value that called it
Frames(stk) ==
    CallerFrames + 1 + Len(stk)
        + Cardinality({i \in 1..Len(stk) : stk[i].fn \in {"parse_array", "parse_dict"}})

\* the function on top of stk can start a chain of n nested calls
Fits(stk, n) == Frames(stk) + n <= RecursionLimit

\* parse_array from "self.eat('RPAREN')" to its return
parse_array_close(p, stk, items) ==
    LET e == eat(p, "RPAREN")
    IN  IF e.ok THEN Return(e.pos, stk, ArrV(items)) ELSE Raise(e.pos, e.error)

\* parse_array from its start to the first parse_value call or its return
\* (called by parse_value, called by the function on top of stk: its first
\* eat reads self.current four frames above that function)
parse_array(p, stk) ==
    LET e == eat_all(p, <<"ARRAY", "LPAREN">>)
    IN  IF ~Fits(stk, 4) THEN Raise(p, RecursionError)
        ELSE IF ~e.ok THEN Raise(e.pos, e.error)
        ELSE IF current(e.pos).type # "RPAREN"
        THEN Call(e.pos, Append(stk, [fn |-> "parse_array", items |-> <<>>]))
        ELSE parse_array_close(e.pos, stk, <<>>)

\* parse_array after a parse_value call returned v: the append, then the
\* head of the comma loop
parse_array_item(p, stk, v) ==
    LET items == Append(Top(stk).items, v)
    IN  IF current(p).type = "COMMA"
        THEN LET e == eat(p, "COMMA")
             IN  Call(e.pos, Append(Pop(stk), [fn |-> "parse_array", items |-> items]))
        ELSE parse_array_close(p, Pop(stk), items)

\* the head of the while loop of parse_dict, to the next parse_value call
\* or the return
parse_dict_loop(p, stk, result) ==
    IF current(p).type = "IDENT"
    THEN LET key == current(p).value
             e == eat_all(p, <<"IDENT", "EQUAL">>)
         IN  IF e.ok
             THEN Call(e.pos, Append(stk, [fn |-> "parse_dict", result |-> result,
                                           key |-> key]))
             ELSE Raise(e.pos, e.error)
    ELSE LET e == eat(p, "RBRACE")
         IN  IF e.ok THEN Return(e.pos, stk, DictV(result))
             ELSE Raise(e.pos, e.error)

\* parse_dict from its start (called as parse_array is)
parse_dict(p, stk) ==
    LET e == eat(p, "DICT_START")
    IN  IF ~Fits(stk, 4) THEN Raise(p, RecursionError)
        ELSE IF e.ok THEN parse_dict_loop(e.pos, stk, <<>>)
        ELSE Raise(e.pos, e.error)

\* parse_dict after a parse_value call returned v
parse_dict_entry(p, stk, v) ==
    LET e == eat(p, "SEMICOLON")
    IN  IF e.ok
        THEN parse_dict_loop(e.pos, Pop(stk), DictSet(Top(stk).result, Top(stk).key, v))
        ELSE Raise(e.pos, e.error)

\* the CONSTREF branch of parse_value after the eat
resolve_const(p, stk, name) ==
    IF ~DictHas(consts, name) THEN Raise(p, UnknownConstant(name))
    ELSE Return(p, stk, DictGet(consts, name))

\* parse_value, called by the function on top of stk: the call and its
\* self.current take two frames, an eat with its self.current three
parse_value(p, stk) ==
    LET tok == current(p)
    IN  IF ~Fits(stk, 2) THEN Raise(p, RecursionError)
        ELSE IF tok.type \in {"NUMBER", "STRING", "CONSTREF"} /\ ~Fits(stk, 3)
        THEN Raise(p, RecursionError)
        ELSE
        CASE tok.type = "NUMBER" ->
                 Return(eat(p, "NUMBER").pos, stk, IntV(parse_binary(tok.value)))
          [] tok.type = "STRING" ->
                 Return(eat(p, "STRING").pos, stk,
                        StrV(Slice(tok.value, 2, Len(tok.value) - 2)))
          [] tok.type = "CONSTREF" ->
                 resolve_const(eat(p, "CONSTREF").pos, stk,
                               Slice(tok.value, 1, Len(tok.value) - 1))
          [] tok.type = "ARRAY" -> parse_array(p, stk)
          [] tok.type = "DICT_START" -> parse_dict(p, stk)
          [] OTHER -> Raise(p, UnexpectedValue(tok))

\* parse_const_def from its start to its parse_value call
parse_const_def(p, stk) ==
    LET e == eat_all(p, <<"LPAREN", "DEF">>)
    IN  IF ~e.ok THEN Raise(e.pos, e.error)
        ELSE IF current(e.pos).type # "IDENT"
        THEN Raise(e.pos, ConstNameExpected)
        ELSE Call(eat(e.pos, "IDENT").pos,
                  Append(stk, [fn |-> "parse_const_def",
                               name |-> current(e.pos).value]))

\* variant: consts.setdefault(name, value), the first definition stays
parse_const_def_bind_first(p, stk, v) ==
    LET e == eat_all(p, <<"RPAREN", "SEMICOLON">>)
    IN  IF e.ok
        THEN [ctl |-> "loop", pos |-> e.pos, stack |-> Pop(stk), ret |-> NoValue,
              consts |-> IF DictHas(consts, Top(stk).name) THEN consts
                         ELSE DictSet(consts, Top(stk).name, v),
              error |-> Pending]
        ELSE Raise(e.pos, e.error)

\* variant: the constant is bound before ")" and ";" are checked
parse_const_def_bind_early(p, stk, v) ==
    LET e == eat_all(p, <<"RPAREN", "SEMICOLON">>)
    IN  IF e.ok
        THEN [ctl |-> "loop", pos |-> e.pos, stack |-> Pop(stk), ret |-> NoValue,
              consts |-> DictSet(consts, Top(stk).name, v), error |-> Pending]
        ELSE [Raise(e.pos, e.error) EXCEPT !.consts = DictSet(consts, Top(stk).name, v)]

\* parse_const_def after its parse_value call returned v; then back to the
\* head of the while loop of parse_program
parse_const_def_bind(p, stk, v) ==
    LET e == eat_all(p, <<"RPAREN", "SEMICOLON">>)
    IN  IF e.ok
        THEN [ctl |-> "loop", pos |-> e.pos, stack |-> Pop(stk), ret |-> NoValue,
              consts |-> DictSet(consts, Top(stk).name, v), error |-> Pending]
        ELSE Raise(e.pos, e.error)

\* the head of the while loop of parse_program: a definition, or the call
\* of parse_value for the root
parse_program_loop(p, stk) ==
    IF current(p).type = "LPAREN" /\ peek(p, 1).type = "DEF"
    THEN parse_const_def(p, stk)
    ELSE Call(p, stk)

\* variant: the root value is returned whatever follows it
parse_program_end_unchecked(p, stk, v) ==
    [ctl |-> "end", pos |-> p, stack |-> <<>>, ret |-> NoValue,
     consts |-> consts, error |-> Ok(v)]

\* parse_program after the root value v
parse_program_end(p, stk, v) ==
    IF current(p).type # "EOF"
    THEN Raise(p, TrailingInput(current(p)))
    ELSE [ctl |-> "end", pos |-> p, stack |-> <<>>, ret |-> NoValue,
          consts |-> consts, error |-> Ok(v)]

(***************************************************************************)
(* Input texts.  Each family is bounded by one definition.                 *)
(***************************************************************************)
MaxDefs == 3
MaxEntries == 3
MaxPieces == 3
MaxStrLen == 3
MaxCalls == 3

SeqsUpTo(S, n) == UNION {[1..k -> S] : k \in 0..n}

RECURSIVE Cat(_)
\* the concatenation of a sequence of texts
Cat(ts) == IF Len(ts) = 0 THEN <<>> ELSE ts[1] \o Cat([i \in 1..(Len(ts) - 1) |-> ts[i + 1]])

Names == {<<"a">>, <<"b">>}
Num1 == <<"0", "b", "1">>
Num2 == <<"0", "B", "1", "0">>
Str == <<"[", "[", "x", " ", "y", "]", "]">>
Ref(n) == <<"$">> \o n \o <<"$">>
Def(n, v) == <<"(", "d", "e", "f", " ">> \o n \o <<" ">> \o v \o <<")", ";">>
Arr2(v, w) == <<"a", "r", "r", "a", "y", "(">> \o v \o <<",", " ">> \o w \o <<")">>
Entry(k, v) == k \o <<" ", "=", " ">> \o v \o <<";">>
Dict(es) == <<"@", "{">> \o es \o <<"}">>

\* definitions of a by a number or by a reference to a and of b by a
\* reference to a, then a root that reads the constants
DefTexts ==
    {Def(<<"a">>, v) : v \in {Num1, Num2, Ref(<<"a">>)}}
        \cup {Def(<<"b">>, Ref(<<"a">>))}
RefRoots == {Ref(<<"a">>), Ref(<<"b">>), Arr2(Ref(<<"a">>), Ref(<<"b">>))}
ConstPrograms ==
    {Cat(ds) \o r : ds \in SeqsUpTo(DefTexts, MaxDefs), r \in RefRoots}

\* one dict literal whose keys may repeat
EntryTexts ==
    {Entry(k, v) : k \in Names,
                   v \in {Num1, Str, Arr2(Num2, Dict(Entry(<<"b">>, Num1)))}}
DictPrograms == {Dict(Cat(es)) : es \in SeqsUpTo(EntryTexts, MaxEntries)}

\* short texts of lexemes and of fragments of lexemes
LexPieces ==
    {<<" ">>, <<"a">>, <<"d", "e", "f">>, <<"a", "r", "r", "a", "y">>,
     <<"0", "b">>, <<"1">>, <<"$">>, <<"#">>}
TokPieces ==
    {<<"(", "d", "e", "f", " ", "a", " ">>, Num1, <<")">>, <<";">>,
     <<"a", "r", "r", "a", "y", "(">>, <<",">>, <<"@", "{">>, <<"a", "=">>, <<"}">>}
PieceTexts ==
    {Cat(ps) : ps \in SeqsUpTo(LexPieces, MaxPieces) \cup SeqsUpTo(TokPieces, MaxPieces)}

\* one string literal, brackets allowed inside
StringTexts ==
    {<<"[", "[">> \o w \o <<"]", "]">> : w \in SeqsUpTo({"a", " ", "[", "]"}, MaxStrLen)}

\* a program with nested values, and everything it starts with
Nested ==
    Def(<<"a">>, Num2) \o <<"\n">>
    \o Dict(<<" ">> \o Entry(<<"a">>, Arr2(Ref(<<"a">>), Str)) \o <<"\t">>
            \o Entry(<<"b">>, Dict(Entry(<<"b">>, Ref(<<"a">>)))) \o <<" ">>)
    \o <<"\n">>
PrefixTexts == {SubSeq(Nested, 1, k) : k \in 0..Len(Nested)}

Inputs == ConstPrograms \cup DictPrograms \cup PieceTexts \cup StringTexts \cup PrefixTexts

\* texts of the callers that translate several texts one after the other
CallTexts ==
    {Def(<<"a">>, Num1) \o Ref(<<"a">>), Def(<<"a">>, Num2) \o Ref(<<"a">>),
     Ref(<<"a">>), Def(<<"a">>, Num1)}
Sessions ==
    {<<t>> : t \in Inputs} \cup {q \in SeqsUpTo(CallTexts, MaxCalls) : Len(q) >= 2}

\* piece * n
Rep(piece, n) == [i \in 1..(n * Len(piece)) |-> piece[((i - 1) % Len(piece)) + 1]]

\* v inside d arrays, and inside d dicts
NestedArray(d, v) == Rep(<<"a", "r", "r", "a", "y", "(">>, d) \o v \o Rep(<<")">>, d)
NestedDict(d, v) == Rep(<<"@", "{", "a", "=">>, d) \o v \o Rep(<<";", "}">>, d)

\* the deepest nesting of arrays and dicts the call stack has room for when
\* the root value is parsed: parse_program runs CallerFrames + 2 frames
\* deep, each level takes two frames and the innermost array or dict four
DeepestNesting == (RecursionLimit - CallerFrames - 6) \div 2 + 1

\* texts nested as deep as the call stack allows and one level deeper; in a
\* definition, where parse_const_def takes one frame more, a reference
\* inside DeepestNesting arrays is already too deep
DeepTexts ==
    {NestedArray(DeepestNesting, <<>>), NestedArray(DeepestNesting + 1, <<>>),
     NestedDict(DeepestNesting, Num1),
     Def(<<"b">>, NestedArray(DeepestNesting, Ref(<<"a">>))) \o Num1}
DeepSessions == Sessions \cup {<<t>> : t \in DeepTexts}

(***************************************************************************)
(* The state machine.  queue holds the texts the callers will still pass   *)
(* to translate_text and log what the calls so far gave back.  steps       *)
(* counts the actions of the running stage (tokenize, then the parser) of  *)
(* the current call.                                                       *)
(***************************************************************************)
Init ==
    /\ queue \in Sessions
    /\ log = <<>>
    /\ pc = "idle"
    /\ text = <<>>
    /\ lpos = 0
    /\ tokens = <<>>
    /\ pos = 0
    /\ consts = <<>>
    /\ stack = <<>>
    /\ ctl = "end"
    /\ ret = NoValue
    /\ outcome = Pending
    /\ steps = 0

\* the call ends: the caller has the value or the error
Finish(o) ==
    /\ pc' = "done"
    /\ ctl' = "end"
    /\ outcome' = o
    /\ log' = Append(log, [text |-> text, outcome |-> o])

\* a caller (main through translate_file, or run_tests) calls translate_text
TranslateText ==
    /\ pc \in {"idle", "done"}
    /\ queue # <<>>
    /\ text' = Head(queue)
    /\ queue' = Tail(queue)
    /\ pc' = "lex"
    /\ lpos' = 0
    /\ tokens' = <<>>
    /\ outcome' = Pending
    /\ steps' = 0
    /\ UNCHANGED <<log, pos, consts, stack, ctl, ret>>

\* one iteration of the while loop of tokenize
Tokenize ==
    /\ pc = "lex"
    /\ lpos < Len(text)
    /\ \E r \in {tokenize_step(text, lpos, tokens)} :
           /\ lpos' = r.pos
           /\ tokens' = r.tokens
           /\ IF r.ok THEN UNCHANGED <<pc, ctl, outcome, log>> ELSE Finish(r.error)
    /\ steps' = steps + 1
    /\ UNCHANGED <<queue, text, pos, consts, stack, ret>>

\* tokenize returns; translate_text constructs the Parser and calls
\* parse_program
TokenizeReturn ==
    /\ pc = "lex"
    /\ lpos >= Len(text)
    /\ LET parser == Parser__init__(tokenize_end(tokens))
       IN  /\ tokens' = parser.tokens
           /\ pos' = parser.pos
           /\ consts' = parser.consts
    /\ pc' = "parse"
    /\ ctl' = "loop"
    /\ stack' = <<[fn |-> "parse_program"]>>
    /\ ret' = NoValue
    /\ steps' = 0
    /\ UNCHANGED <<queue, log, text, lpos, outcome>>

\* the parser goes on to the state r
Apply(r) ==
    /\ pos' = r.pos
    /\ stack' = r.stack
    /\ ret' = r.ret
    /\ consts' = r.consts
    /\ IF r.ctl \in {"raise", "end"}
       THEN Finish(r.error)
       ELSE ctl' = r.ctl /\ UNCHANGED <<pc, outcome, log>>
    /\ steps' = steps + 1
    /\ UNCHANGED <<queue, text, lpos, tokens>>

ParseProgram ==
    /\ pc = "parse" /\ ctl = "loop"
    /\ Apply(parse_program_loop(pos, stack))

ParseValue ==
    /\ pc = "parse" /\ ctl = "call"
    /\ Apply(parse_value(pos, stack))

ParseArrayItem ==
    /\ pc = "parse" /\ ctl = "ret" /\ Top(stack).fn = "parse_array"
    /\ Apply(parse_array_item(pos, stack, ret))

ParseDictEntry ==
    /\ pc = "parse" /\ ctl = "ret" /\ Top(stack).fn = "parse_dict"
    /\ Apply(parse_dict_entry(pos, stack, ret))

ParseConstDefBind ==
    /\ pc = "parse" /\ ctl = "ret" /\ Top(stack).fn = "parse_const_def"
    /\ Apply(parse_const_def_bind(pos, stack, ret))

ParseProgramEnd ==
    /\ pc = "parse" /\ ctl = "ret" /\ Top(stack).fn = "parse_program"
    /\ Apply(parse_program_end(pos, stack, ret))

Next ==
    \/ TranslateText
    \/ Tokenize
    \/ TokenizeReturn
    \/ ParseProgram
    \/ ParseValue
    \/ ParseArrayItem
    \/ ParseDictEntry
    \/ ParseConstDefBind
    \/ ParseProgramEnd

Spec == Init /\ [][Next]_vars

\* the sessions of Spec and the deeply nested texts
DeepInit ==
    /\ queue \in DeepSessions
    /\ log = <<>>
    /\ pc = "idle"
    /\ text = <<>>
    /\ lpos = 0
    /\ tokens = <<>>
    /\ pos = 0
    /\ consts = <<>>
    /\ stack = <<>>
    /\ ctl = "end"
    /\ ret = NoValue
    /\ outcome = Pending
    /\ steps = 0

DeepSpec == DeepInit /\ [][Next]_vars

(***************************************************************************)
(* Properties                                                              *)
(***************************************************************************)
\* the parser of the current call exists (tokenize returned)
ParserExists == pc = "parse" \/ (pc = "done" /\ tokens # <<>>)

\* the type of the token at index i, "NONE" past the end
TypeAt(i) == IF i < Len(tokens) THEN tokens[i + 1].type ELSE "NONE"

\* The grammar of the language over token types, independent of the parser:
\*   program := const_def* value EOF
\*   const_def := "(" "def" IDENT value ")" ";"
\*   value := number | string | const_ref | array | dict
\* Each operator gives the index after the phrase that starts at i, or -1.
RECURSIVE ValueEnd(_), ItemsEnd(_), EntriesEnd(_), RootEnd(_)
ValueEnd(i) ==
    CASE TypeAt(i) \in {"NUMBER", "STRING", "CONSTREF"} -> i + 1
      [] TypeAt(i) = "ARRAY" /\ TypeAt(i + 1) = "LPAREN" ->
             IF TypeAt(i + 2) = "RPAREN" THEN i + 3 ELSE ItemsEnd(i + 2)
      [] TypeAt(i) = "DICT_START" -> EntriesEnd(i + 1)
      [] OTHER -> -1
ItemsEnd(i) ==
    LET e == ValueEnd(i)
    IN  CASE e # -1 /\ TypeAt(e) = "COMMA" -> ItemsEnd(e + 1)
          [] e # -1 /\ TypeAt(e) = "RPAREN" -> e + 1
          [] OTHER -> -1
EntriesEnd(i) ==
    CASE TypeAt(i) = "IDENT" /\ TypeAt(i + 1) = "EQUAL" ->
             LET e == ValueEnd(i + 2)
             IN  IF e # -1 /\ TypeAt(e) = "SEMICOLON" THEN EntriesEnd(e + 1) ELSE -1
      [] TypeAt(i) = "RBRACE" -> i + 1
      [] OTHER -> -1
\* the index after const_def* value, for a program that starts at i
RootEnd(i) ==
    IF TypeAt(i) = "LPAREN" /\ TypeAt(i + 1) = "DEF"
    THEN LET e == IF TypeAt(i + 2) = "IDENT" THEN ValueEnd(i + 3) ELSE -1
         IN  IF e # -1 /\ TypeAt(e) = "RPAREN" /\ TypeAt(e + 1) = "SEMICOLON"
             THEN RootEnd(e + 2) ELSE -1
    ELSE ValueEnd(i)

\* the index after the definition that starts at i, or -1
DefEnd(i) ==
    LET e == IF TypeAt(i) = "LPAREN" /\ TypeAt(i + 1) = "DEF" /\ TypeAt(i + 2) = "IDENT"
             THEN ValueEnd(i + 3) ELSE -1
    IN  IF e # -1 /\ TypeAt(e) = "RPAREN" /\ TypeAt(e + 1) = "SEMICOLON"
        THEN e + 2 ELSE -1

RECURSIVE DefsFrom(_)
\* the start indices of the complete definitions that follow one another
\* from index i on
DefsFrom(i) == IF DefEnd(i) = -1 THEN {} ELSE {i} \cup DefsFrom(DefEnd(i))

\* the definitions whose closing ")" ";" stand before index p
CompletedDefs(p) == {i \in DefsFrom(0) : DefEnd(i) <= p}
DefName(i) == tokens[i + 3].value
CompletedNames(p) == {DefName(i) : i \in CompletedDefs(p)}

\* the name inside the CONSTREF token at index i
RefName(i) == Slice(tokens[i + 1].value, 1, Len(tokens[i + 1].value) - 1)

\* the most recent definition of name n completed before index p
LatestDef(n, p) ==
    CHOOSE i \in CompletedDefs(p) :
        /\ DefName(i) = n
        /\ \A j \in CompletedDefs(p) : DefName(j) = n => j <= i

\* the definition at i gives its constant a number, a string or a reference
AtomDef(i) == TypeAt(i + 3) \in {"NUMBER", "STRING", "CONSTREF"}

RECURSIVE DefValue(_)
\* the value of the constant of the definition at i, read off the tokens: a
\* reference stands for the most recent definition completed before i
DefValue(i) ==
    CASE TypeAt(i + 3) = "NUMBER" -> IntV(parse_binary(tokens[i + 4].value))
      [] TypeAt(i + 3) = "STRING" ->
             StrV(Slice(tokens[i + 4].value, 2, Len(tokens[i + 4].value) - 2))
      [] TypeAt(i + 3) = "CONSTREF" -> DefValue(LatestDef(RefName(i + 3), i))

\* The depth of the call stack read off the tokens, for a cursor p at the
\* start of a value in a prefix the parser has accepted.
\* the tokens of the types S among those at a..b-1
Count(S, a, b) == Cardinality({j \in a..(b - 1) : TypeAt(j) \in S})
\* arrays and dicts opened less ")" and "}" among the tokens at a..b-1
Net(a, b) == Count({"ARRAY", "DICT_START"}, a, b) - Count({"RPAREN", "RBRACE"}, a, b)
\* the index of the last "def" before p, or -1
LastDef(p) ==
    LET defs == {j \in 0..(p - 1) : TypeAt(j) = "DEF"}
    IN  IF defs = {} THEN -1 ELSE CHOOSE j \in defs : \A k \in defs : k <= j
\* p is inside a definition: the ")" ";" that close the last "def" are not
\* before p
InDef(p) ==
    LET d == LastDef(p)
    IN  /\ d # -1
        /\ ~\E k \in (d + 1)..(p - 1) :
               TypeAt(k) = "SEMICOLON" /\ TypeAt(k - 1) = "RPAREN" /\ Net(d, k) = -1
\* the frames in use by the function that calls parse_value at p:
\* parse_program or parse_const_def, or the innermost of the arrays and
\* dicts open at p (each completed definition has one ")" of its own)
FramesAt(p) ==
    LET def == IF InDef(p) THEN 1 ELSE 0
        open == Net(0, p) + Count({"DEF"}, 0, p) - def
    IN  CallerFrames + 2 + def + 2 * open
\* the call stack is too full for parse_value to take the token at p: an
\* array or a dict needs four more frames, a number, a string or a
\* reference three
TooDeepAt(p) ==
    FramesAt(p) + (IF TypeAt(p) \in {"ARRAY", "DICT_START"} THEN 4 ELSE 3) > RecursionLimit

\* a definition of the name n was completely parsed before index p
DefinedBefore(n, p) ==
    \E i \in {j \in 0..(p - 3) : /\ TypeAt(j) = "LPAREN" /\ TypeAt(j + 1) = "DEF"
                                 /\ TypeAt(j + 2) = "IDENT" /\ DefName(j) = n} :
        i \in CompletedDefs(p)

\* C1: when parse_value meets a reference $name$, it returns a value only
\* if a definition of name was completely parsed before the reference, and
\* otherwise (no definition, a later one, or the one being parsed) the call
\* fails with the unknown-constant error that names name.
C1_RefNeedsEarlierDef ==
    [][(pc = "parse" /\ ctl = "call" /\ TypeAt(pos) = "CONSTREF") =>
          /\ (pc' = "parse" /\ ctl' = "ret")
                 => DefinedBefore(RefName(pos), pos) /\ ret' # NoValue
          /\ ~DefinedBefore(RefName(pos), pos)
                 => pc' = "done" /\ outcome' = UnknownConstant(RefName(pos))]_vars

\* C2: a value is returned only for tokens of the form const_def* value EOF,
\* with the cursor on the end-of-input token, and tokens of this form give a
\* value unless they refer to an unknown constant or are nested too deep for
\* the call stack; when another token follows the root value the call fails
\* with the trailing-input error that shows this token (unless one of these
\* two failed before), and the trailing-input error is raised nowhere else.
C2_RootThenEOF ==
    (pc = "done" /\ tokens # <<>>) =>
        LET e == RootEnd(0)
        IN  /\ outcome.kind = "value" => e # -1 /\ TypeAt(e) = "EOF" /\ pos = e
            /\ (e # -1 /\ TypeAt(e) = "EOF"
                    /\ outcome.err \notin {"UnknownConstant", "RecursionError"})
                   => outcome.kind = "value"
            /\ (e # -1 /\ TypeAt(e) # "EOF"
                    /\ outcome.err \notin {"UnknownConstant", "RecursionError"})
                   => outcome = TrailingInput(tokens[e + 1]) /\ pos = e
            /\ outcome.err = "TrailingInput" => e # -1 /\ TypeAt(e) # "EOF"

\* a definition placed after the root value is refused as trailing input
C2_Witness ==
    /\ pc = "done"
    /\ outcome.err = "TrailingInput"
    /\ outcome.type = "LPAREN"
    /\ TypeAt(pos + 1) = "DEF"

\* the text is one string literal [[w]]: w holds no "]]" and the first "]]"
\* of the literal is the closing one
IsStringLiteral(t) ==
    /\ Len(t) >= 4
    /\ LitAt(t, 0, <<"[", "[">>)
    /\ \A p \in 2..(Len(t) - 3) : ~LitAt(t, p, <<"]", "]">>)
    /\ LitAt(t, Len(t) - 2, <<"]", "]">>)

\* C3: a string literal [[w]] whose w holds no "]]" translates to the text
\* value w, the two brackets at each end removed and nothing else changed.
C3_StringVerbatim ==
    (pc = "done" /\ IsStringLiteral(text)) =>
        outcome = Ok(StrV(Slice(text, 2, Len(text) - 2)))

RECURSIVE FirstStuck(_, _)
\* scanning t from p match by match: the first position where no
\* alternative matches, or -1 when the scan reaches the end
FirstStuck(t, p) ==
    IF p >= Len(t) THEN -1
    ELSE IF TOKEN_RE(t, p).kind = "NONE" THEN p
    ELSE FirstStuck(t, TOKEN_RE(t, p).end)

RECURSIVE Covers(_, _, _, _, _)
\* toks[i..] are, in this order, the pieces of t[p:end] between its
\* whitespace
Covers(t, p, toks, i, end) ==
    LET q == RunEnd(t, p, SpaceChars)
    IN  IF i > Len(toks) THEN q >= end
        ELSE /\ toks[i].value # <<>>
             /\ q + Len(toks[i].value) <= end
             /\ Slice(t, q, q + Len(toks[i].value)) = toks[i].value
             /\ Covers(t, q + Len(toks[i].value), toks, i + 1, end)

TokenTypes ==
    {"DICT_START", "LBRACE", "RBRACE", "LPAREN", "RPAREN", "COMMA", "EQUAL",
     "SEMICOLON", "ARRAY", "DEF", "CONSTREF", "STRING", "NUMBER", "IDENT"}

\* C8: every iteration of tokenize either moves on inside the text or
\* fails, so that tokenize returns or fails on every text; the tokens it has collected are the
\* non-whitespace matches of the text scanned so far, in source order; what
\* it returns (seen as the parser starts) covers the whole text and ends
\* with the end-of-input token, no other token being one; and when it fails, it
\* fails at the first position of the scan where no rule matches, with the
\* character at that position, and returns no tokens.
C8_TokenizeTotal ==
    /\ (pc = "lex" /\ lpos < Len(text)) =>
          LET r == tokenize_step(text, lpos, tokens)
          IN  IF r.ok THEN lpos < r.pos /\ r.pos <= Len(text)
              ELSE r.error = UnexpectedChar(text[lpos + 1], lpos)
    /\ pc = "lex" =>
          /\ lpos <= Len(text)
          /\ \A i \in 1..Len(tokens) : tokens[i].type \in TokenTypes
          /\ Covers(text, 0, tokens, 1, lpos)
    /\ (pc = "parse" /\ ctl = "loop" /\ pos = 0) =>
          /\ FirstStuck(text, 0) = -1
          /\ tokens[Len(tokens)] = Token("EOF", <<>>)
          /\ \A i \in 1..(Len(tokens) - 1) : tokens[i].type \in TokenTypes
          /\ Covers(text, 0, SubSeq(tokens, 1, Len(tokens) - 1), 1, Len(text))
    /\ (pc = "done" /\ outcome.err = "UnexpectedChar") =>
          /\ tokens = <<>>
          /\ outcome.at = FirstStuck(text, 0)
          /\ outcome.text = <<text[outcome.at + 1]>>

\* a lex error after leading whitespace was skipped and a token was matched
C8_Witness ==
    /\ pc = "done"
    /\ outcome.err = "UnexpectedChar"
    /\ outcome.at >= 2
    /\ text[1] \in SpaceChars
    /\ \E p \in 1..outcome.at : text[p] \notin SpaceChars

\* C9: the cursor of the parser stays between 0 and the index of the
\* end-of-input token, which is the last token and the only one of its type;
\* the lookahead of parse_program stays inside the sequence too.
C9_CursorInRange ==
    ParserExists =>
        /\ 0 <= pos /\ pos <= Len(tokens) - 1
        /\ \A i \in 1..Len(tokens) : (tokens[i].type = "EOF") = (i = Len(tokens))
        /\ (pc = "parse" /\ ctl = "loop" /\ TypeAt(pos) = "LPAREN")
               => pos + 1 <= Len(tokens) - 1

\* invalid input: an eat was refused at the end-of-input token
C9_Witness ==
    /\ pc = "done"
    /\ outcome.err = "ExpectedToken"
    /\ outcome.type = "EOF"
    /\ pos = Len(tokens) - 1
    /\ pos > 0

Keys(d) == [i \in 1..Len(d) |-> d[i].key]

\* the dict the innermost parse_dict call holds after a step: the one it
\* returned, or its local result
DictAfter(c, stk, r) == IF c = "ret" THEN r.v ELSE Top(stk).result

\* C4: a dict literal starts from the empty mapping, and each entry k = v
\* leaves the keys distinct and in the order of their first declaration: a
\* new key goes to the end, a repeated key keeps its place, k then holds v
\* and every other key holds what it held.
C4_DictLastWins ==
    /\ [][(pc = "parse" /\ ctl = "call" /\ TypeAt(pos) = "DICT_START" /\ pc' = "parse")
             => DictAfter(ctl', stack', ret') = <<>>]_vars
    /\ [][(pc = "parse" /\ ctl = "ret" /\ Top(stack).fn = "parse_dict" /\ pc' = "parse")
             => LET d == Top(stack).result
                    k == Top(stack).key
                    n == DictAfter(ctl', stack', ret')
                IN  /\ Keys(n) = IF \E i \in 1..Len(d) : d[i].key = k
                                  THEN Keys(d) ELSE Append(Keys(d), k)
                    /\ \A i, j \in 1..Len(n) : n[i].key = n[j].key => i = j
                    /\ \A i \in 1..Len(n) :
                           n[i].value = IF n[i].key = k THEN ret ELSE d[i].value]_vars

\* the first of two keys is declared again with another value
C4_Witness ==
    /\ pc = "parse" /\ ctl = "ret"
    /\ Top(stack).fn = "parse_dict"
    /\ Len(Top(stack).result) = 2
    /\ Top(stack).result[1].key = Top(stack).key
    /\ Top(stack).result[1].value # ret

\* C5: the table holds exactly the names of the completed definitions, each
\* with the value of its most recent completed definition, and a reference
\* returns the value of the most recent definition completed before it; a
\* definition by reference keeps the value its reference had at that place
\* (for definitions by a number, a string or a reference).
C5_LatestDefinitionWins ==
    (pc = "parse" /\ \A i \in CompletedDefs(pos) : AtomDef(i)) =>
        /\ \A i \in 1..Len(consts) : consts[i].key \in CompletedNames(pos)
        /\ \A n \in CompletedNames(pos) :
               DictHas(consts, n) /\ DictGet(consts, n) = DefValue(LatestDef(n, pos))
        /\ (ctl = "ret" /\ pos > 0 /\ TypeAt(pos - 1) = "CONSTREF")
               => ret = DefValue(LatestDef(RefName(pos - 1), pos - 1))

\* a is defined, b is defined as $a$, a is defined again with another
\* value, and the root array($a$, $b$) shows the new a and the old one
C5_Witness ==
    /\ pc = "done"
    /\ outcome.kind = "value"
    /\ \E i, j, k \in CompletedDefs(Len(tokens)) :
           /\ i < j /\ j < k
           /\ DefName(i) = DefName(k)
           /\ DefName(j) # DefName(i)
           /\ TypeAt(j + 3) = "CONSTREF" /\ RefName(j + 3) = DefName(i)
           /\ DefValue(i) # DefValue(k)
           /\ TypeAt(DefEnd(k)) = "ARRAY"
           /\ RefName(DefEnd(k) + 2) = DefName(i)
           /\ RefName(DefEnd(k) + 4) = DefName(j)
           /\ outcome.value = ArrV(<<DefValue(k), DefValue(i)>>)

\* C6: within one session of calls, two calls with the same text give the
\* same outcome whatever was translated in between, and every parser
\* starts with an empty constant table.
C6_CallsIndependent ==
    /\ \A i, j \in 1..Len(log) :
           log[i].text = log[j].text => log[i].outcome = log[j].outcome
    /\ (pc = "parse" /\ ctl = "loop" /\ pos = 0) => consts = <<>>

\* $a$ fails, then a text that defines a and reads it succeeds, then $a$
\* fails again
C6_Witness ==
    /\ Len(log) = 3
    /\ log[1].text = Ref(<<"a">>)
    /\ log[1].outcome = UnknownConstant(<<"a">>)
    /\ log[2].outcome.kind = "value"
    /\ log[3] = log[1]

\* the error of a failed call fits the place where the parser stopped
ErrorAtCursor ==
    CASE outcome.err = "UnexpectedChar" ->
             /\ tokens = <<>>
             /\ outcome.at = FirstStuck(text, 0)
      [] outcome.err = "ExpectedToken" ->
             /\ tokens[pos + 1] = Token(outcome.type, outcome.text)
             /\ outcome.type # outcome.expected
      [] outcome.err = "UnexpectedValue" ->
             /\ tokens[pos + 1] = Token(outcome.type, outcome.text)
             /\ outcome.type \notin {"NUMBER", "STRING", "CONSTREF", "ARRAY", "DICT_START"}
      [] outcome.err = "TrailingInput" ->
             /\ tokens[pos + 1] = Token(outcome.type, outcome.text)
             /\ outcome.type # "EOF"
      [] outcome.err = "ConstNameExpected" ->
             /\ TypeAt(pos - 1) = "DEF" /\ TypeAt(pos) # "IDENT"
      [] outcome.err = "UnknownConstant" ->
             /\ TypeAt(pos - 1) = "CONSTREF" /\ RefName(pos - 1) = outcome.text
             /\ outcome.text \notin CompletedNames(pos - 1)
      [] outcome.err = "RecursionError" ->
             /\ TypeAt(pos) \in {"NUMBER", "STRING", "CONSTREF", "ARRAY", "DICT_START"}
             /\ TooDeepAt(pos)
      [] OTHER -> FALSE

\* C7: a call that runs has no outcome yet; a call that ended has exactly
\* one, the one its caller got: a root value, or one error and no value (a
\* SyntaxError, or the RecursionError of a call stack that is full).
\* After an error the call stack is gone, the cursor stands where the error
\* was met (the token the error shows is the one under the cursor), the
\* step that met it bound no constant, the table holds only constants whose
\* definitions were completed before that place, and nothing moves until
\* the next call.
C7_OneOutcome ==
    /\ [](pc \in {"lex", "parse"} => outcome = Pending)
    /\ [](pc = "done" =>
            /\ log # <<>> /\ log[Len(log)] = [text |-> text, outcome |-> outcome]
            /\ stack = <<>> /\ ret = NoValue
            /\ \/ /\ outcome.kind = "value"
                  /\ outcome.value # NoValue
                  /\ outcome = Ok(outcome.value)
               \/ /\ outcome.kind = "error"
                  /\ outcome.value = NoValue
                  /\ ErrorAtCursor
                  /\ (tokens # <<>> /\ outcome.err # "RecursionError") =>
                         \A i \in 1..Len(consts) : consts[i].key \in CompletedNames(pos))
    /\ [][(pc = "parse" /\ pc' = "done" /\ outcome'.kind = "error") =>
             /\ consts' = consts
             /\ outcome'.err = "RecursionError" => pos' = pos]_vars
    /\ [][pc = "done" => (pc' = "lex" /\ outcome' = Pending)]_vars

\* the first definition lacks its closing ")" or ";": the call fails there
\* and its constant is not bound
C7_Witness ==
    /\ pc = "done"
    /\ outcome.err = "ExpectedToken"
    /\ outcome.expected \in {"RPAREN", "SEMICOLON"}
    /\ TypeAt(0) = "LPAREN" /\ TypeAt(1) = "DEF" /\ TypeAt(2) = "IDENT"
    /\ ValueEnd(3) \in {pos, pos - 1}
    /\ consts = <<>>

\* the step is an iteration of the definition loop of parse_program, of the
\* comma loop of parse_array or of the entry loop of parse_dict, or a call
\* of parse_value
LoopOrValueStep ==
    /\ pc = "parse"
    /\ \/ ctl = "loop" /\ TypeAt(pos) = "LPAREN" /\ TypeAt(pos + 1) = "DEF"
       \/ ctl = "call"
       \/ ctl = "ret" /\ Top(stack).fn \in {"parse_array", "parse_dict", "parse_const_def"}

\* C10: every iteration of tokenize moves on in the text or fails, every
\* loop iteration of the parser and every parse_value call moves the cursor
\* on or fails, the steps of tokenize number at most the characters read and
\* those of the parser at most the tokens read plus one, and a call that
\* has not ended always has a next step: so every call ends.
C10_Terminates ==
    /\ [][(pc = "lex" /\ lpos < Len(text)) => (lpos' > lpos \/ pc' = "done")]_vars
    /\ [][LoopOrValueStep => (pos' > pos \/ pc' = "done")]_vars
    /\ [](pc = "lex" => steps <= lpos /\ lpos <= Len(text))
    /\ [](pc = "parse" => steps <= pos + 1 /\ pos <= Len(tokens) - 1)
    /\ [](pc = "lex" => (lpos < Len(text) \/ ENABLED TokenizeReturn))
    /\ [](pc = "parse" => ENABLED Next)

\* a call with a definition, an array and a dict that ends with a value
C10_Witness ==
    /\ pc = "done"
    /\ outcome.kind = "value"
    /\ steps >= 10
    /\ \E i \in 1..Len(tokens) : tokens[i].type = "COMMA"
    /\ \E i \in 1..Len(tokens) : tokens[i].type = "DEF"
    /\ \E i \in 1..Len(tokens) : tokens[i].type = "EQUAL"

====
